---------------------------- MODULE Spec2Model ----------------------------
(***************************************************************************)
(* Model of convert.py (ruv-xmltv): the listing resolver pick_latest_xml,  *)
(* the schedule parser parse_kringla_schedule, the interval reconciler     *)
(* clamp_overlaps_shorten_previous and the driver main.                    *)
(*                                                                         *)
(* Text is a sequence of one-character strings.  Timestamps are seconds    *)
(* since the midnight of the schedule's day.                               *)
(***************************************************************************)
EXTENDS Integers, Sequences, FiniteSets, TLC

VARIABLES
    pc,            \* position of the running function / of main
    key,           \* main: index into CHAN_MAP of the channel in progress
    out,           \* main: the list `out` of output lines
    stdout,        \* what has been written to sys.stdout
    log,           \* history of the steps main has taken, <<key, step>>
    raised,        \* the exception that ended the run, or None
    base_url,      \* pick_latest_xml: its argument
    listing,       \* pick_latest_xml: the fetched listing text
    latest_url,    \* pick_latest_xml's return value
    xml_text,      \* the schedule document handed to the parser
    services,      \* parse_kringla_schedule's return value
    display_name,  \* main: the channel's display name
    input,         \* the event list as it was when the reconciler was called
    events,        \* the reconciler's argument list (mutated in place)
    all_events     \* main: the merged list; the reconciler's return value

vars == <<pc, key, out, stdout, log, raised, base_url, listing, latest_url,
          xml_text, services, display_name, input, events, all_events>>

\* Python's None where a text is expected: a value that is no text.
None == <<"None">>

\* `raised` when no exception has been raised.
NoError == "NoError"

(***************************************************************************)
(* Bounds of the model.                                                    *)
(***************************************************************************)
MaxPieces == 4     \* a listing is built from at most this many pieces
MaxElements == 6   \* a schedule document has at most this many elements
MaxDefective == 3  \* ... at most this many when it may hold malformed ones
MaxFeed == 3       \* ... at most this many in a document main fetches
MaxEvents == 3     \* longest event list handed to the reconciler
MaxTime == 3       \* largest start/stop instant of a reconciler input

(***************************************************************************)
(* Characters and strings.                                                 *)
(***************************************************************************)
\* The characters the model uses, in code point order (Python compares
\* str values code point by code point).
CodeOrder ==
    << " ", "-", ".", "/", "1", "2", ":", "?", "L", "M", "X", "_",
       "d", "e", "f", "h", "i", "l", "m", "n", "p", "r", "s", "t", "u",
       "v", "x" >>

Ord(c) == CHOOSE n \in 1..Len(CodeOrder) : CodeOrder[n] = c

\* str.lower() on one character.
LowerChar(c) ==
    CASE c = "L" -> "l"
      [] c = "M" -> "m"
      [] c = "X" -> "x"
      [] OTHER -> c

LowerText(s) == [n \in 1..Len(s) |-> LowerChar(s[n])]

\* Python's str < str: the first differing character decides, a proper
\* prefix is smaller.
RECURSIVE TextLess(_, _)
TextLess(s, t) ==
    IF t = <<>> THEN FALSE
    ELSE IF s = <<>> THEN TRUE
    ELSE IF s[1] # t[1] THEN Ord(s[1]) < Ord(t[1])
    ELSE TextLess(Tail(s), Tail(t))

StartsWith(s, prefix) ==
    /\ Len(prefix) <= Len(s)
    /\ SubSeq(s, 1, Len(prefix)) = prefix

EndsWith(s, suffix) ==
    /\ Len(suffix) <= Len(s)
    /\ SubSeq(s, Len(s) - Len(suffix) + 1, Len(s)) = suffix

\* str.rstrip("/") and str.lstrip("/").
RECURSIVE RStripSlash(_)
RStripSlash(s) ==
    IF s # <<>> /\ s[Len(s)] = "/" THEN RStripSlash(SubSeq(s, 1, Len(s) - 1))
    ELSE s

RECURSIVE LStripSlash(_)
LStripSlash(s) ==
    IF s # <<>> /\ s[1] = "/" THEN LStripSlash(Tail(s))
    ELSE s

\* x.split("?")[0]: the text before the first "?".
RECURSIVE SplitQuery(_)
SplitQuery(s) ==
    IF s = <<>> \/ s[1] = "?" THEN <<>>
    ELSE <<s[1]>> \o SplitQuery(Tail(s))

(***************************************************************************)
(* pick_latest_xml.                                                        *)
(***************************************************************************)
\* \w of the pattern.
WordChar(c) ==
    c \in {"1", "2", "L", "M", "X", "_", "d", "e", "f", "h", "i", "l", "m",
           "n", "p", "r", "s", "t", "u", "v", "x"}

\* The character class [\w./-].
ClassChar(c) == WordChar(c) \/ c \in {".", "/", "-"}

\* \.xml under re.IGNORECASE, at position p of s.
DotXmlAt(s, p) ==
    /\ p >= 1
    /\ p + 3 <= Len(s)
    /\ s[p] = "."
    /\ LowerChar(s[p + 1]) = "x"
    /\ LowerChar(s[p + 2]) = "m"
    /\ LowerChar(s[p + 3]) = "l"

\* Last position of the maximal run of class characters that starts at p
\* (p - 1 when s[p] is no class character).
RECURSIVE RunEnd(_, _)
RunEnd(s, p) ==
    IF p <= Len(s) /\ ClassChar(s[p]) THEN RunEnd(s, p + 1) ELSE p - 1

\* Where the match of [\w./-]+\.xml that starts at p ends, 0 when there is
\* none.  The greedy + takes the whole run and backtracks to the last \.xml
\* in it that leaves at least one character for the +.
MatchEnd(s, p) ==
    LET r == RunEnd(s, p)
        dots == {q \in (p + 1)..(r - 3) : DotXmlAt(s, q)}
    IN  IF dots = {} THEN 0
        ELSE (CHOOSE q \in dots : \A q2 \in dots : q2 <= q) + 3

\* re.findall: the non-overlapping matches, leftmost first, scanning from p.
RECURSIVE FindAll(_, _)
FindAll(s, p) ==
    IF p > Len(s) THEN <<>>
    ELSE LET e == MatchEnd(s, p)
         IN  IF e = 0 THEN FindAll(s, p + 1)
             ELSE <<SubSeq(s, p, e)>> \o FindAll(s, e + 1)

SeqRange(q) == {q[n] : n \in 1..Len(q)}

\* sorted(S) for a set of texts.
RECURSIVE SortedTexts(_)
SortedTexts(S) ==
    IF S = {} THEN <<>>
    ELSE LET least == CHOOSE t \in S : \A u \in S : u = t \/ TextLess(t, u)
         IN  <<least>> \o SortedTexts(S \ {least})

XmltvDtd == <<"x", "m", "l", "t", "v", ".", "d", "t", "d">>

\* candidates, after "Normalize and dedupe" and the dtd filter.
Candidates(text) ==
    LET raw == FindAll(text, 1)
        sorted == SortedTexts({SplitQuery(x) : x \in SeqRange(raw)})
    IN  SelectSeq(sorted, LAMBDA c : ~EndsWith(LowerText(c), XmltvDtd))

\* Variant of the selection that takes the first candidate of the sorted
\* list (candidates[0]).
LatestIsFirst(candidates) == candidates[1]

\* latest = candidates[-1]
Latest(candidates) == candidates[Len(candidates)]

HttpScheme == <<"h", "t", "t", "p", ":", "/", "/">>
HttpsScheme == <<"h", "t", "t", "p", "s", ":", "/", "/">>

IsFullUrl(t) == StartsWith(t, HttpScheme) \/ StartsWith(t, HttpsScheme)

\* base_url.rstrip("/") + "/" + latest.lstrip("/")
JoinToBase(base, latest) == RStripSlash(base) \o <<"/">> \o LStripSlash(latest)

\* Lines 44-50: the URL for the selected candidate.
UrlFor(base, latest) ==
    IF IsFullUrl(latest) THEN latest ELSE JoinToBase(base, latest)

\* Lines 36-50: what the function raises and returns for the candidates.
PickFrom(base, candidates) ==
    IF candidates = <<>>
    THEN [raised |-> "RuntimeError", url |-> None]
    ELSE [raised |-> NoError, url |-> UrlFor(base, Latest(candidates))]

\* The function from the fetched listing on.
pick_latest_xml(base, text) == PickFrom(base, Candidates(text))

(***************************************************************************)
(* parse_kringla_schedule.                                                 *)
(*                                                                         *)
(* A document is what ET.fromstring makes of the text: wellformed, the     *)
(* root's tag, and `services`, the elements root.findall(".//service")     *)
(* yields in document order.  A service element has its attributes and     *)
(* `events`, its direct children named event; an event element has its     *)
(* attributes and its children [tag, text].  An attribute set is a         *)
(* function from the names present to their texts.  A start-time text of   *)
(* the fixed day is <<separator, hours, minutes, seconds>>, a duration     *)
(* text is the tuple of its colon-separated integer fields.                *)
(***************************************************************************)
\* Element.get(name)
Get(attrs, name) == IF name \in DOMAIN attrs THEN attrs[name] ELSE None

\* Truth value of a text or None.
Truthy(v) == v # None /\ v # <<>>

\* a or b
Or(a, b) == IF Truthy(a) THEN a ELSE b

\* root.tag.lower()
LowerTag(tag) ==
    CASE tag = "Schedule" -> "schedule"
      [] tag = "SCHEDULE" -> "schedule"
      [] tag = "Program" -> "program"
      [] OTHER -> tag

SecondsPerHour == 3600
SecondsPerMinute == 60

\* start_time.replace("T", " ") matches "%Y-%m-%d %H:%M:%S".
StrptimeOk(t) ==
    /\ Len(t) = 4
    /\ t[1] \in {"T", " "}
    /\ t[2] \in 0..23
    /\ t[3] \in 0..59
    /\ t[4] \in 0..59

Strptime(t) == t[2] * SecondsPerHour + t[3] * SecondsPerMinute + t[4]

\* h, m, s = duration.strip().split(":") unpacks.
DurationOk(d) == Len(d) = 3

\* dt.timedelta(hours=int(h), minutes=int(m), seconds=int(s))
Timedelta(d) == d[1] * SecondsPerHour + d[2] * SecondsPerMinute + d[3]

\* str.strip() of a text.
RECURSIVE Strip(_)
Strip(s) ==
    IF s # <<>> /\ s[1] = " " THEN Strip(Tail(s))
    ELSE IF s # <<>> /\ s[Len(s)] = " " THEN Strip(SubSeq(s, 1, Len(s) - 1))
    ELSE s

\* ev.find("./" + tag): index of the first child with that tag, 0 for None.
FindChild(children, tag) ==
    LET hits == {n \in 1..Len(children) : children[n].tag = tag}
    IN  IF hits = {} THEN 0 ELSE CHOOSE n \in hits : \A n2 \in hits : n <= n2

\* (el.text or "").strip() if el is not None else ""
ChildText(children, tag) ==
    LET n == FindChild(children, tag)
    IN  IF n = 0 THEN <<>> ELSE Strip(Or(children[n].text, <<>>))

\* start_time and duration of an event element, as lines 68-69 read them.
StartTimeOf(ev) == Or(Get(ev.attrs, "start-time"), Get(ev.attrs, "start_time"))
DurationOf(ev) == Get(ev.attrs, "duration")

\* Variant of the skip test that looks at the start time only.
SkippedOnStartOnly(ev) == ~Truthy(StartTimeOf(ev))

\* if not start_time or not duration: continue
Skipped(ev) == ~Truthy(StartTimeOf(ev)) \/ ~Truthy(DurationOf(ev))

\* Lines 73-82 for an event that is not skipped.
ParseEvent(ev) ==
    LET start_dt == Strptime(StartTimeOf(ev))
    IN  [start |-> start_dt,
         stop |-> start_dt + Timedelta(DurationOf(ev)),
         title |-> ChildText(ev.children, "title"),
         desc |-> ChildText(ev.children, "description")]

EventRaises(ev) ==
    /\ ~Skipped(ev)
    /\ ~StrptimeOk(StartTimeOf(ev)) \/ ~DurationOk(DurationOf(ev))

\* The loop over svc.findall("./event").
RECURSIVE ParseEvents(_)
ParseEvents(els) ==
    IF els = <<>> THEN <<>>
    ELSE IF Skipped(els[1]) THEN ParseEvents(Tail(els))
    ELSE <<ParseEvent(els[1])>> \o ParseEvents(Tail(els))

ParseService(svc) ==
    [service_id |->
         Or(Or(Get(svc.attrs, "service-id"), Get(svc.attrs, "service_id")), <<>>),
     service_name |->
         Or(Or(Get(svc.attrs, "service-name"), Get(svc.attrs, "service_name")), <<>>),
     events |-> ParseEvents(svc.events)]

\* What the function raises and returns for a document.
parse_kringla_schedule(doc) ==
    IF ~doc.wellformed
    THEN [raised |-> "ParseError", services |-> <<>>]
    ELSE IF LowerTag(doc.root) # "schedule"
    THEN [raised |-> "ValueError", services |-> <<>>]
    ELSE IF \E n \in 1..Len(doc.services) :
                \E m \in 1..Len(doc.services[n].events) :
                    EventRaises(doc.services[n].events[m])
    THEN [raised |-> "ValueError", services |-> <<>>]
    ELSE [raised |-> NoError,
          services |-> [n \in 1..Len(doc.services) |-> ParseService(doc.services[n])]]

(***************************************************************************)
(* clamp_overlaps_shorten_previous.                                        *)
(***************************************************************************)
\* Variant of the loop that sets the stop whenever it differs from the next
\* start, so that a gap is closed by lengthening the earlier event.
RECURSIVE ShortenFromAnyDifference(_, _)
ShortenFromAnyDifference(evs, i) ==
    IF i > Len(evs) - 1 THEN evs
    ELSE IF evs[i].stop # evs[i + 1].start
    THEN ShortenFromAnyDifference([evs EXCEPT ![i].stop = evs[i + 1].start], i + 1)
    ELSE ShortenFromAnyDifference(evs, i + 1)

\* The loop of lines 93-95 from index i on (1-based); evs is mutated in place.
RECURSIVE ShortenFrom(_, _)
ShortenFrom(evs, i) ==
    IF i > Len(evs) - 1 THEN evs
    ELSE IF evs[i].stop > evs[i + 1].start
    THEN ShortenFrom([evs EXCEPT ![i].stop = evs[i + 1].start], i + 1)
    ELSE ShortenFrom(evs, i + 1)

\* Variant of the pass that stops one pair early (range(len(events) - 2)).
ShortenPassSkipLastPair(evs) ==
    IF Len(evs) < 2 THEN evs
    ELSE ShortenFrom(SubSeq(evs, 1, Len(evs) - 1), 1) \o <<evs[Len(evs)]>>

ShortenPass(evs) == ShortenFrom(evs, 1)

\* Variants of the filter: none at all, and one that keeps stop = start.
DropNothing(evs) == evs

DropInvalidKeepEmpty(evs) == SelectSeq(evs, LAMBDA e : e.stop >= e.start)

\* return [e for e in events if e["stop"] > e["start"]]
DropInvalid(evs) == SelectSeq(evs, LAMBDA e : e.stop > e.start)

\* Variant of the function that filters before the pass instead of after.
ClampFilterFirst(evs) == ShortenPass(DropInvalid(evs))

clamp_overlaps_shorten_previous(evs) == DropInvalid(ShortenPass(evs))

(***************************************************************************)
(* The reconciler on its own: called once with any event list, sorted or   *)
(* not, within the bounds.                                                 *)
(***************************************************************************)
\* Title of the event at position n when the titles are pairwise distinct.
TitleAt(n) == [m \in 1..n |-> "A"]

Intervals == [start : 0..MaxTime, stop : 0..MaxTime]

\* The event list of the intervals iv; the titles all empty or all distinct.
EventList(iv, distinct) ==
    [m \in 1..Len(iv) |->
        [start |-> iv[m].start, stop |-> iv[m].stop,
         title |-> IF distinct THEN TitleAt(m) ELSE <<>>, desc |-> <<>>]]

InitClamp ==
    /\ pc = "clamp"
    /\ input = <<>>
    /\ events = <<>>
    /\ key = 0
    /\ out = <<>>
    /\ stdout = <<>>
    /\ log = <<>>
    /\ raised = NoError
    /\ base_url = <<>>
    /\ listing = <<>>
    /\ latest_url = None
    /\ xml_text = None
    /\ services = <<>>
    /\ display_name = <<>>
    /\ all_events = <<>>

\* One call with some event list: the loop mutates the argument, the
\* filter builds the result.
CallClamp ==
    /\ pc = "clamp"
    /\ \E n \in 0..MaxEvents, distinct \in BOOLEAN :
           \E iv \in [1..n -> Intervals] : input' = EventList(iv, distinct)
    /\ events' = ShortenPass(input')
    /\ all_events' = clamp_overlaps_shorten_previous(input')
    /\ pc' = "clamp_returned"
    /\ UNCHANGED <<key, out, stdout, log, raised, base_url, listing,
                   latest_url, xml_text, services, display_name>>

NextClamp == CallClamp

SpecClamp == InitClamp /\ [][NextClamp]_vars

(***************************************************************************)
(* Properties of the reconciler (SpecClamp).                               *)
(***************************************************************************)
Returned == pc = "clamp_returned"

SortedByStart(evs) ==
    \A i, j \in 1..Len(evs) : i < j => evs[i].start <= evs[j].start

NonOverlapping(evs) ==
    \A i, j \in 1..Len(evs) : i < j => evs[i].stop <= evs[j].start

\* Three events of evs at positions i < j < k that are valid and overlap
\* pairwise.
MutualOverlap(evs) ==
    \E i, j, k \in 1..Len(evs) :
        /\ i < j /\ j < k
        /\ \A n \in {i, j, k} : evs[n].stop > evs[n].start
        /\ evs[j].start < evs[i].stop
        /\ evs[k].start < evs[i].stop
        /\ evs[k].start < evs[j].stop

\* C1: for an input sorted ascending by start, the returned sequence is
\* sorted ascending by start and no two of its events overlap: for all
\* positions i < j, output[i].stop <= output[j].start.
C1_SortedNonOverlapping ==
    (Returned /\ SortedByStart(input)) =>
        (SortedByStart(all_events) /\ NonOverlapping(all_events))

\* A sorted input with three mutually overlapping events, strictly
\* increasing starts, all three surviving.
C1_Witness ==
    /\ Returned
    /\ SortedByStart(input)
    /\ Len(input) = 3
    /\ MutualOverlap(input)
    /\ input[1].start < input[2].start
    /\ input[2].start < input[3].start
    /\ Len(all_events) = 3

\* C2: every event of the returned sequence has stop > start, whatever
\* the input (sorted or not, with events of stop <= start or not).
C2_PositiveDuration ==
    Returned => \A n \in 1..Len(all_events) : all_events[n].stop > all_events[n].start

\* An unsorted input holding an event with stop < start and one shortened
\* to nothing, with a survivor.
C2_Witness ==
    /\ Returned
    /\ ~SortedByStart(input)
    /\ \E n \in 1..Len(input) : input[n].stop < input[n].start
    /\ \E n \in 1..Len(input) :
           input[n].stop > input[n].start /\ events[n].stop <= events[n].start
    /\ all_events # <<>>

\* Position in the input of the last event that starts at s.
LastStartingAt(s) ==
    CHOOSE i \in 1..Len(input) :
        /\ input[i].start = s
        /\ \A i2 \in 1..Len(input) : input[i2].start = s => i2 <= i

\* C7: for a start-sorted input, an event whose immediate successor has
\* the same start is left with stop <= start and so is not returned; a
\* returned event is the last input event of its start; the returned start
\* times increase strictly; [(0-3,A),(0-1,B)] reconciles to [(0-1,B)].
C7_SameStartKeepsLast ==
    (Returned /\ SortedByStart(input)) =>
        /\ \A i \in 1..(Len(input) - 1) :
               input[i].start = input[i + 1].start =>
                   /\ events[i].stop <= events[i].start
                   /\ \A n \in 1..Len(all_events) :
                          all_events[n].title # input[i].title
                          \/ input[i].title = input[i + 1].title
        /\ \A n \in 1..Len(all_events) :
               all_events[n].title = input[LastStartingAt(all_events[n].start)].title
        /\ \A n \in 1..(Len(all_events) - 1) :
               all_events[n].start < all_events[n + 1].start
        /\ (/\ Len(input) = 2
            /\ input[1].start = 0 /\ input[1].stop = 3
            /\ input[2].start = 0 /\ input[2].stop = 1) =>
               all_events = <<input[2]>>

\* The instance of the claim, with distinct titles.
C7_Witness ==
    /\ Returned
    /\ Len(input) = 2
    /\ input[1].start = 0 /\ input[1].stop = 3
    /\ input[2].start = 0 /\ input[2].stop = 1
    /\ input[1].title # input[2].title
    /\ all_events = <<input[2]>>

\* all_events is events with some positions left out, the order kept.
IsSubsequence(sub, full) ==
    \E f \in [1..Len(sub) -> 1..Len(full)] :
        /\ \A n \in 1..(Len(sub) - 1) : f[n] < f[n + 1]
        /\ \A n \in 1..Len(sub) : sub[n] = full[f[n]]

\* C10: the call changes nothing but stops, and only downwards: the
\* argument list keeps its length and every start, title and description;
\* a stop is unchanged or lowered to exactly the start of the immediate
\* successor; the last event is untouched; the returned sequence is a
\* subsequence of the argument list as mutated.
C10_OnlyStopsLowered ==
    Returned =>
        /\ Len(events) = Len(input)
        /\ \A i \in 1..Len(input) :
               /\ events[i].start = input[i].start
               /\ events[i].title = input[i].title
               /\ events[i].desc = input[i].desc
               /\ \/ events[i].stop = input[i].stop
                  \/ /\ i < Len(input)
                     /\ events[i].stop = input[i + 1].start
                     /\ events[i].stop < input[i].stop
        /\ input # <<>> => events[Len(input)] = input[Len(input)]
        /\ IsSubsequence(all_events, events)

\* An event was shortened and survives, another is dropped, and a gap
\* between two events is left as it is.
C10_Witness ==
    /\ Returned
    /\ Len(input) = 3
    /\ input[1].title # input[2].title
    /\ \E i \in 1..2 : events[i].stop < input[i].stop /\ events[i].stop > events[i].start
    /\ \E i \in 1..2 : input[i].stop < input[i + 1].start
    /\ Len(all_events) = 2

\* The shortening loop repeated until a pass changes nothing, then the
\* filter.
RECURSIVE ShortenUntilStable(_)
ShortenUntilStable(evs) ==
    LET next == ShortenPass(evs)
    IN  IF next = evs THEN evs ELSE ShortenUntilStable(next)

MultiPass(evs) == DropInvalid(ShortenUntilStable(evs))

\* The whole pass, filter included, repeated until it changes nothing.
RECURSIVE ClampUntilStable(_)
ClampUntilStable(evs) ==
    LET next == DropInvalid(ShortenPass(evs))
    IN  IF next = evs THEN evs ELSE ClampUntilStable(next)

\* C9 as stated: some input sorted by start exists on which repeating the
\* pass until nothing changes gives another output than the single pass:
\* before the call, a call with such an input is possible.
C9_SomeSortedInputDiffers ==
    pc = "clamp" =>
        ENABLED (/\ CallClamp
                 /\ SortedByStart(input')
                 /\ \/ MultiPass(input') # all_events'
                    \/ ClampUntilStable(input') # all_events')

\* C9 amended: on every input sorted by start the single pass returns
\* what the repeated pass returns (with the filter after the last pass or
\* after each pass).
C9_SinglePassIsStable ==
    (Returned /\ SortedByStart(input)) =>
        /\ MultiPass(input) = all_events
        /\ ClampUntilStable(input) = all_events

\* A sorted input of three mutually overlapping events in which the pass
\* shortened two consecutive events.
C9_Witness ==
    /\ Returned
    /\ SortedByStart(input)
    /\ Len(input) = 3
    /\ MutualOverlap(input)
    /\ events[1].stop < input[1].stop
    /\ events[2].stop < input[2].stop
    /\ input[1].title # input[2].title

(***************************************************************************)
(* The listing resolver on its own: called once with a base URL; the       *)
(* fetch fails or returns some listing text within the bounds.             *)
(***************************************************************************)
\* RUV1_BASE, "https://muninn.ruv.is/files/xml/ruv/"
RUV1_BASE ==
    << "h", "t", "t", "p", "s", ":", "/", "/", "m", "u", "n", "i", "n", "n",
       ".", "r", "u", "v", ".", "i", "s", "/", "f", "i", "l", "e", "s", "/",
       "x", "m", "l", "/", "r", "u", "v", "/" >>

\* RUV2_BASE, "https://muninn.ruv.is/files/xml/ruv2/"
RUV2_BASE == SubSeq(RUV1_BASE, 1, Len(RUV1_BASE) - 1) \o <<"2", "/">>

\* The base URLs the resolver is called with: as configured, without the
\* trailing slash and with two.
Bases == {RUV1_BASE, RStripSlash(RUV1_BASE), RUV1_BASE \o <<"/">>}

\* The pieces a listing text is put together from: "1.xml", "/2.XML",
\* "d/", "/", " ", "https://", "?", "xmltv.dtd".
Pieces ==
    { <<"1", ".", "x", "m", "l">>,
      <<"/", "2", ".", "X", "M", "L">>,
      <<"d", "/">>,
      <<"/">>,
      <<" ">>,
      HttpsScheme,
      <<"?">>,
      XmltvDtd }

RECURSIVE Concat(_)
Concat(parts) == IF parts = <<>> THEN <<>> ELSE parts[1] \o Concat(Tail(parts))

InitPick ==
    /\ pc = "pick"
    /\ key = 0
    /\ out = <<>>
    /\ stdout = <<>>
    /\ log = <<>>
    /\ raised = NoError
    /\ base_url = <<>>
    /\ listing = <<>>
    /\ latest_url = None
    /\ xml_text = None
    /\ services = <<>>
    /\ display_name = <<>>
    /\ input = <<>>
    /\ events = <<>>
    /\ all_events = <<>>

\* fetch_text(base_url) raises: urlopen failed.
PickFetchFails ==
    /\ pc = "pick"
    /\ base_url' \in Bases
    /\ raised' = "URLError"
    /\ pc' = "pick_raised"
    /\ UNCHANGED <<key, out, stdout, log, listing, latest_url, xml_text,
                   services, display_name, input, events, all_events>>

\* fetch_text(base_url) returns a listing; the rest of the function runs.
PickReturnsOrRaises ==
    /\ pc = "pick"
    /\ base_url' \in Bases
    /\ \E n \in 0..MaxPieces : \E parts \in [1..n -> Pieces] :
           listing' = Concat(parts)
    /\ \E r \in {pick_latest_xml(base_url', listing')} :
           /\ raised' = r.raised
           /\ latest_url' = r.url
           /\ pc' = IF r.raised = NoError THEN "pick_returned" ELSE "pick_raised"
    /\ UNCHANGED <<key, out, stdout, log, xml_text, services, display_name,
                   input, events, all_events>>

NextPick == PickFetchFails \/ PickReturnsOrRaises

SpecPick == InitPick /\ [][NextPick]_vars

(***************************************************************************)
(* Properties of the listing resolver (SpecPick).                          *)
(***************************************************************************)
\* The tokens the pattern extracts from the listing.
Tokens == SeqRange(FindAll(listing, 1))

\* url is base, taken as a directory, followed by the token t: base
\* without its trailing slashes, one "/", t without its leading slashes.
JoinedAsDirectory(base, t, url) ==
    \E i \in 0..Len(base), j \in 1..Len(t) :
        /\ i = 0 \/ base[i] # "/"
        /\ \A n \in (i + 1)..Len(base) : base[n] = "/"
        /\ t[j] # "/"
        /\ \A n \in 1..(j - 1) : t[n] = "/"
        /\ url = SubSeq(base, 1, i) \o <<"/">> \o SubSeq(t, j, Len(t))

\* t is the greatest of the tokens in plain string order.
GreatestOf(tokens, t) == t \in tokens /\ \A u \in tokens : u = t \/ TextLess(u, t)

SelectedAndJoined(tokens) ==
    \E t \in tokens :
        /\ GreatestOf(tokens, t)
        /\ ~IsFullUrl(t) => JoinedAsDirectory(base_url, t, latest_url)

\* C5: when the fetched listing holds at least one token, the function
\* returns; the token it selects is the greatest of the distinct tokens in
\* plain string order; and when that token is relative (not
\* scheme-prefixed) the result is base_url joined to it as a directory,
\* with a single "/" at the join.
C5_LatestJoinedToBase ==
    /\ (pc = "pick_raised" /\ raised = "RuntimeError") => Tokens = {}
    /\ pc = "pick_returned" => SelectedAndJoined(Tokens)

\* Two distinct tokens, the greater one with a leading slash, a base URL
\* with a trailing slash.
C5_Witness ==
    /\ pc = "pick_returned"
    /\ Cardinality(Tokens) = 2
    /\ base_url[Len(base_url)] = "/"
    /\ \E t \in Tokens : GreatestOf(Tokens, t) /\ t[1] = "/"

\* The listing references a file by an absolute URL at p..e: a scheme and
\* "://" start at p, at a token boundary, and q is where the slashes start;
\* the pattern extracts q..e from it.
AbsoluteReference(p, q, e) ==
    /\ p = 1 \/ ~ClassChar(listing[p - 1])
    /\ \E scheme \in {HttpScheme, HttpsScheme} :
           /\ StartsWith(SubSeq(listing, p, Len(listing)), scheme)
           /\ q = p + Len(scheme) - 2
    /\ e = MatchEnd(listing, q)
    /\ e # 0

\* C6: when the selected candidate comes from an absolute, scheme-prefixed
\* URL of the listing (and from nowhere else in it), the function returns
\* that URL unchanged.
C6_AbsoluteUrlUnchanged ==
    pc = "pick_returned" =>
        \A p, q, e \in 1..Len(listing) :
            (/\ AbsoluteReference(p, q, e)
             /\ SubSeq(listing, q, e) = Latest(Candidates(listing))
             /\ Len(FindAll(listing, 1)) = 1) =>
                latest_url = SubSeq(listing, p, e)

(***************************************************************************)
(* The parser on its own: called once with some document within the        *)
(* bounds.  A document is drawn as the sequence of its service and event   *)
(* elements in document order; an event belongs to the service element     *)
(* before it, and an event before the first service is a child of the      *)
(* root, which the parser does not look at.                                *)
(***************************************************************************)
Attr(name, text) == name :> text

\* <service service-name="n1" service_name="n2" service-id="1">
ServiceA ==
    [kind |-> "service",
     attrs |-> Attr("service-name", <<"n", "1">>) @@ Attr("service_name", <<"n", "2">>)
               @@ Attr("service-id", <<"1">>),
     children |-> <<>>]

\* <service service_id="2" service-name="">
ServiceB ==
    [kind |-> "service",
     attrs |-> Attr("service_id", <<"2">>) @@ Attr("service-name", <<>>),
     children |-> <<>>]

\* <event start-time="..T00:00:01" start_time=".. 00:00:09" duration="00:01:02">
\*   <title> A </title><description/></event>
Complete1 ==
    [kind |-> "event",
     attrs |-> Attr("start-time", <<"T", 0, 0, 1>>) @@ Attr("start_time", <<" ", 0, 0, 9>>)
               @@ Attr("duration", <<0, 1, 2>>),
     children |-> <<[tag |-> "title", text |-> <<" ", "A", " ">>],
                    [tag |-> "description", text |-> None]>>]

\* <event start_time=".. 00:01:00" duration="01:00:00">
\*   <description>d</description><title>B</title><title>C</title></event>
Complete2 ==
    [kind |-> "event",
     attrs |-> Attr("start_time", <<" ", 0, 1, 0>>) @@ Attr("duration", <<1, 0, 0>>),
     children |-> <<[tag |-> "description", text |-> <<"d">>],
                    [tag |-> "title", text |-> <<"B">>],
                    [tag |-> "title", text |-> <<"C">>]>>]

\* <event duration="00:00:05"><title>X</title></event>
NoStart ==
    [kind |-> "event",
     attrs |-> Attr("duration", <<0, 0, 5>>),
     children |-> <<[tag |-> "title", text |-> <<"X">>]>>]

\* <event start-time="..T00:00:03"/>
NoDuration ==
    [kind |-> "event",
     attrs |-> Attr("start-time", <<"T", 0, 0, 3>>),
     children |-> <<>>]

\* <event start-time="" duration="00:00:05"/>
EmptyStart ==
    [kind |-> "event",
     attrs |-> Attr("start-time", <<>>) @@ Attr("duration", <<0, 0, 5>>),
     children |-> <<>>]

\* <event start-time="..T00:00:01" duration="00:01"/>: two duration fields
BadDuration ==
    [kind |-> "event",
     attrs |-> Attr("start-time", <<"T", 0, 0, 1>>) @@ Attr("duration", <<0, 1>>),
     children |-> <<>>]

\* <event start-time="..x00:00:01" duration="00:00:01"/>: no "T", no space
BadStart ==
    [kind |-> "event",
     attrs |-> Attr("start-time", <<"x", 0, 0, 1>>) @@ Attr("duration", <<0, 0, 1>>),
     children |-> <<>>]

WellFormedElements == {ServiceA, ServiceB, Complete1, Complete2, NoStart, NoDuration}

DefectiveElements == WellFormedElements \cup {EmptyStart, BadDuration, BadStart}

\* The event elements that follow position n up to the next service.
RECURSIVE EventsAfter(_, _)
EventsAfter(els, n) ==
    IF n + 1 > Len(els) \/ els[n + 1].kind = "service" THEN <<>>
    ELSE <<els[n + 1]>> \o EventsAfter(els, n + 1)

\* The service elements of the document, each with its event children.
RECURSIVE ServicesFrom(_, _)
ServicesFrom(els, n) ==
    IF n > Len(els) THEN <<>>
    ELSE IF els[n].kind = "service"
    THEN <<[attrs |-> els[n].attrs, events |-> EventsAfter(els, n)]>>
         \o ServicesFrom(els, n + 1)
    ELSE ServicesFrom(els, n + 1)

Document(root, els) ==
    [wellformed |-> TRUE, root |-> root, services |-> ServicesFrom(els, 1)]

\* Text that is no well-formed markup.
Malformed == [wellformed |-> FALSE, root |-> "", services |-> <<>>]

InitParse ==
    /\ pc = "parse"
    /\ key = 0
    /\ out = <<>>
    /\ stdout = <<>>
    /\ log = <<>>
    /\ raised = NoError
    /\ base_url = <<>>
    /\ listing = <<>>
    /\ latest_url = None
    /\ xml_text = None
    /\ services = <<>>
    /\ display_name = <<>>
    /\ input = <<>>
    /\ events = <<>>
    /\ all_events = <<>>

\* One call with some document.
CallParse ==
    /\ pc = "parse"
    /\ \/ \E n \in 0..MaxElements : \E els \in [1..n -> WellFormedElements] :
              xml_text' = Document("schedule", els)
       \/ \E n \in 0..MaxDefective : \E els \in [1..n -> DefectiveElements] :
              \E root \in {"schedule", "Schedule", "program"} :
                  xml_text' = Document(root, els)
       \/ xml_text' = Malformed
    /\ \E r \in {parse_kringla_schedule(xml_text')} :
           /\ raised' = r.raised
           /\ services' = r.services
           /\ pc' = IF r.raised = NoError THEN "parse_returned" ELSE "parse_raised"
    /\ UNCHANGED <<key, out, stdout, log, base_url, listing, latest_url,
                   display_name, input, events, all_events>>

NextParse == CallParse

SpecParse == InitParse /\ [][NextParse]_vars

(***************************************************************************)
(* Properties of the parser (SpecParse).                                   *)
(***************************************************************************)
HasText(attrs, name) == name \in DOMAIN attrs /\ attrs[name] # <<>>

\* The event element has a start time (either spelling) and a duration.
Complete(ev) ==
    /\ HasText(ev.attrs, "start-time") \/ HasText(ev.attrs, "start_time")
    /\ HasText(ev.attrs, "duration")

\* The start time text the parser is to read: the hyphenated spelling
\* first.
StartText(ev) ==
    IF HasText(ev.attrs, "start-time") THEN ev.attrs["start-time"]
    ELSE ev.attrs["start_time"]

\* parsed is the list for the event elements els: the complete ones, each
\* once, in document order.
CompleteEventsInOrder(els, parsed) ==
    \E f \in [1..Len(parsed) -> 1..Len(els)] :
        /\ \A k \in 1..(Len(parsed) - 1) : f[k] < f[k + 1]
        /\ \A m \in 1..Len(els) : Complete(els[m]) <=> \E k \in 1..Len(parsed) : f[k] = m
        /\ \A k \in 1..Len(parsed) :
               /\ parsed[k].start = Strptime(StartText(els[f[k]]))
               /\ parsed[k].stop - parsed[k].start = Timedelta(els[f[k]].attrs["duration"])

\* C8: an event without a start time (both spellings) or without a
\* duration raises nothing and is left out of its service's list; the
\* complete events of the service are all returned, in document order; the
\* service record is returned whatever was skipped.  An exception is due to
\* malformed markup, the root's tag or a complete event.
C8_IncompleteEventsSkipped ==
    /\ pc = "parse_returned" =>
           /\ Len(services) = Len(xml_text.services)
           /\ \A n \in 1..Len(services) :
                  CompleteEventsInOrder(xml_text.services[n].events, services[n].events)
    /\ pc = "parse_raised" =>
           \/ ~xml_text.wellformed
           \/ LowerTag(xml_text.root) # "schedule"
           \/ \E n \in 1..Len(xml_text.services) :
                  \E m \in 1..Len(xml_text.services[n].events) :
                      LET ev == xml_text.services[n].events[m]
                      IN  Complete(ev) /\ (~StrptimeOk(StartText(ev))
                                           \/ ~DurationOk(ev.attrs["duration"]))

\* A service with a skipped event between two complete ones, and a service
\* all of whose events are skipped.
C8_Witness ==
    /\ pc = "parse_returned"
    /\ Len(services) = 2
    /\ \E n \in 1..2 :
           /\ Len(xml_text.services[n].events) = 3
           /\ ~Complete(xml_text.services[n].events[2])
           /\ Len(services[n].events) = 2
           /\ services[n].events[1].start > services[n].events[2].start
    /\ \E n \in 1..2 :
           /\ xml_text.services[n].events # <<>>
           /\ services[n].events = <<>>

(***************************************************************************)
(* main.                                                                   *)
(***************************************************************************)
\* CHAN_MAP in insertion order, the order .items() iterates in.
CHAN_MAP ==
    << [key |-> "ruv1", base |-> RUV1_BASE,
        id |-> <<"r", "u", "v", ".", "i", "s">>, name |-> <<"R", "Ú", "V">>],
       [key |-> "ruv2", base |-> RUV2_BASE,
        id |-> <<"r", "u", "v", "2", ".", "i", "s">>,
        name |-> <<"R", "Ú", "V", " ", "2">>] >>

\* html.escape on one character and on a text (quote=True).
EscapeChar(c) ==
    CASE c = "&" -> <<"&", "a", "m", "p", ";">>
      [] c = "<" -> <<"&", "l", "t", ";">>
      [] c = ">" -> <<"&", "g", "t", ";">>
      [] c = "\"" -> <<"&", "q", "u", "o", "t", ";">>
      [] c = "'" -> <<"&", "#", "x", "2", "7", ";">>
      [] OTHER -> <<c>>

RECURSIVE Escape(_)
Escape(t) == IF t = <<>> THEN <<>> ELSE EscapeChar(t[1]) \o Escape(Tail(t))

SecondsPerDay == 86400

\* xmltv_time: the fields strftime("%Y%m%d%H%M%S") prints for the instant
\* d (the day counted from the schedule's day), and the offset literal.
xmltv_time(d) ==
    [day |-> d \div SecondsPerDay,
     hour |-> (d % SecondsPerDay) \div SecondsPerHour,
     minute |-> (d % SecondsPerHour) \div SecondsPerMinute,
     second |-> d % SecondsPerMinute,
     offset |-> "+0000"]

NoTime == xmltv_time(0)

\* One line of `out`.
Line(kind, chan, text, start, stop) ==
    [kind |-> kind, chan |-> chan, text |-> text, start |-> start, stop |-> stop]

Plain(kind) == Line(kind, <<>>, <<>>, NoTime, NoTime)

\* Lines 120-122.
Header == <<Plain("xml"), Plain("doctype"), Plain("tv")>>

emit_channel(out_lines, chan_id, name) ==
    out_lines \o << Line("channel", Escape(chan_id), <<>>, NoTime, NoTime),
                    Line("display-name", <<>>, Escape(name), NoTime, NoTime),
                    Plain("/channel") >>

emit_programme(out_lines, chan_id, e) ==
    out_lines
    \o << Line("programme", Escape(chan_id), <<>>,
               xmltv_time(e.start), xmltv_time(e.stop)) >>
    \o (IF e.title # <<>> THEN <<Line("title", <<>>, Escape(e.title), NoTime, NoTime)>>
        ELSE <<>>)
    \o (IF e.desc # <<>> THEN <<Line("desc", <<>>, Escape(e.desc), NoTime, NoTime)>>
        ELSE <<>>)
    \o <<Plain("/programme")>>

\* for e in all_events: emit_programme(out, meta["id"], e)
RECURSIVE EmitProgrammes(_, _, _)
EmitProgrammes(out_lines, chan_id, evs) ==
    IF evs = <<>> THEN out_lines
    ELSE EmitProgrammes(emit_programme(out_lines, chan_id, evs[1]), chan_id, Tail(evs))

\* list.sort(key=start): e put behind the events of sorted that start no
\* later (the sort is stable).
InsertByStart(sorted, e) ==
    LET before == {n \in 1..Len(sorted) : sorted[n].start <= e.start}
        k == IF before = {} THEN 0 ELSE CHOOSE n \in before : \A m \in before : m <= n
    IN  SubSeq(sorted, 1, k) \o <<e>> \o SubSeq(sorted, k + 1, Len(sorted))

RECURSIVE SortByStartInto(_, _)
SortByStartInto(sorted, evs) ==
    IF evs = <<>> THEN sorted
    ELSE SortByStartInto(InsertByStart(sorted, evs[1]), Tail(evs))

SortByStart(evs) == SortByStartInto(<<>>, evs)

\* Lines 135-142: the merged events.
RECURSIVE MergeEvents(_)
MergeEvents(svcs) ==
    IF svcs = <<>> THEN <<>> ELSE svcs[1].events \o MergeEvents(Tail(svcs))

\* Lines 136-141: the display name, the last non-empty service name.
RECURSIVE DisplayName(_, _)
DisplayName(name, svcs) ==
    IF svcs = <<>> THEN name
    ELSE DisplayName(IF svcs[1].service_name # <<>> THEN svcs[1].service_name ELSE name,
                     Tail(svcs))

\* What the server may answer for a listing: "1.xml /2.XML", " " and
\* "https://d/1.xml".
FeedListings ==
    { <<"1", ".", "x", "m", "l", " ", "/", "2", ".", "X", "M", "L">>,
      <<" ">>,
      HttpsScheme \o <<"d", "/", "1", ".", "x", "m", "l">> }

FeedElements == {ServiceA, ServiceB, Complete1, Complete2, NoDuration}

Init ==
    /\ pc = "start"
    /\ key = 0
    /\ out = <<>>
    /\ stdout = <<>>
    /\ log = <<>>
    /\ raised = NoError
    /\ base_url = <<>>
    /\ listing = <<>>
    /\ latest_url = None
    /\ xml_text = None
    /\ services = <<>>
    /\ display_name = <<>>
    /\ input = <<>>
    /\ events = <<>>
    /\ all_events = <<>>

\* Lines 119-126: the header goes to `out`; the loop starts.
MainStart ==
    /\ pc = "start"
    /\ out' = Header
    /\ key' = 1
    /\ pc' = "pick"
    /\ UNCHANGED <<stdout, log, raised, base_url, listing, latest_url, xml_text,
                   services, display_name, input, events, all_events>>

\* Line 127, fetch_text(base_url) raises.
MainListingFails ==
    /\ pc = "pick"
    /\ base_url' = CHAN_MAP[key].base
    /\ log' = Append(log, <<key, "listing">>)
    /\ raised' = "URLError"
    /\ pc' = "aborted"
    /\ UNCHANGED <<key, out, stdout, listing, latest_url, xml_text, services,
                   display_name, input, events, all_events>>

\* Line 127, the listing is fetched: pick_latest_xml returns or raises.
MainPick ==
    /\ pc = "pick"
    /\ base_url' = CHAN_MAP[key].base
    /\ log' = Append(log, <<key, "listing">>)
    /\ listing' \in FeedListings
    /\ \E r \in {pick_latest_xml(base_url', listing')} :
           /\ raised' = r.raised
           /\ latest_url' = r.url
           /\ pc' = IF r.raised = NoError THEN "fetch" ELSE "aborted"
    /\ UNCHANGED <<key, out, stdout, xml_text, services, display_name, input,
                   events, all_events>>

\* Variant of the failing fetch that is tried again instead of ending the
\* run.
MainFetchFailsRetries ==
    /\ pc = "fetch"
    /\ log' = Append(log, <<key, "schedule">>)
    /\ UNCHANGED <<pc, key, out, stdout, raised, base_url, listing, latest_url,
                   xml_text, services, display_name, input, events, all_events>>

\* Line 128, fetch_text(latest_url) raises.
MainFetchFails ==
    /\ pc = "fetch"
    /\ log' = Append(log, <<key, "schedule">>)
    /\ raised' = "URLError"
    /\ pc' = "aborted"
    /\ UNCHANGED <<key, out, stdout, base_url, listing, latest_url, xml_text,
                   services, display_name, input, events, all_events>>

\* Line 128, the schedule is fetched.
MainFetch ==
    /\ pc = "fetch"
    /\ log' = Append(log, <<key, "schedule">>)
    /\ \/ \E n \in 0..MaxFeed : \E els \in [1..n -> FeedElements] :
              xml_text' = Document("schedule", els)
       \/ xml_text' = Document("program", <<>>)
       \/ xml_text' = Document("schedule", <<ServiceA, BadDuration>>)
       \/ xml_text' = Malformed
    /\ pc' = "parse"
    /\ UNCHANGED <<key, out, stdout, raised, base_url, listing, latest_url,
                   services, display_name, input, events, all_events>>

\* Line 130.
MainParse ==
    /\ pc = "parse"
    /\ log' = Append(log, <<key, "parse">>)
    /\ \E r \in {parse_kringla_schedule(xml_text)} :
           /\ raised' = r.raised
           /\ services' = r.services
           /\ pc' = IF r.raised = NoError THEN "merge" ELSE "aborted"
    /\ UNCHANGED <<key, out, stdout, base_url, listing, latest_url, xml_text,
                   display_name, input, events, all_events>>

\* Lines 135-142.
MainMerge ==
    /\ pc = "merge"
    /\ log' = Append(log, <<key, "merge">>)
    /\ all_events' = MergeEvents(services)
    /\ display_name' = DisplayName(CHAN_MAP[key].name, services)
    /\ pc' = "sort"
    /\ UNCHANGED <<key, out, stdout, raised, base_url, listing, latest_url,
                   xml_text, services, input, events>>

\* Line 144.
MainSort ==
    /\ pc = "sort"
    /\ log' = Append(log, <<key, "sort">>)
    /\ all_events' = SortByStart(all_events)
    /\ pc' = "reconcile"
    /\ UNCHANGED <<key, out, stdout, raised, base_url, listing, latest_url,
                   xml_text, services, display_name, input, events>>

\* Line 145.
MainReconcile ==
    /\ pc = "reconcile"
    /\ log' = Append(log, <<key, "reconcile">>)
    /\ input' = all_events
    /\ events' = ShortenPass(all_events)
    /\ all_events' = clamp_overlaps_shorten_previous(all_events)
    /\ pc' = "emit"
    /\ UNCHANGED <<key, out, stdout, raised, base_url, listing, latest_url,
                   xml_text, services, display_name>>

\* Variant of the emit step that writes the lines so far to stdout as soon
\* as a channel is done.
MainEmitStreams ==
    /\ pc = "emit"
    /\ log' = Append(log, <<key, "emit">>)
    /\ out' = EmitProgrammes(emit_channel(out, CHAN_MAP[key].id, display_name),
                             CHAN_MAP[key].id, all_events)
    /\ stdout' = Append(stdout, out')
    /\ IF key < Len(CHAN_MAP)
       THEN key' = key + 1 /\ pc' = "pick"
       ELSE key' = key /\ pc' = "write"
    /\ UNCHANGED <<raised, base_url, listing, latest_url, xml_text,
                   services, display_name, input, events, all_events>>

\* Lines 147-149, and the loop going on to the next channel or ending.
MainEmit ==
    /\ pc = "emit"
    /\ log' = Append(log, <<key, "emit">>)
    /\ out' = EmitProgrammes(emit_channel(out, CHAN_MAP[key].id, display_name),
                             CHAN_MAP[key].id, all_events)
    /\ IF key < Len(CHAN_MAP)
       THEN key' = key + 1 /\ pc' = "pick"
       ELSE key' = key /\ pc' = "write"
    /\ UNCHANGED <<stdout, raised, base_url, listing, latest_url, xml_text,
                   services, display_name, input, events, all_events>>

\* Lines 151-152: the footer, and the one write to stdout.
MainWrite ==
    /\ pc = "write"
    /\ log' = Append(log, <<0, "write">>)
    /\ out' = Append(out, Plain("/tv"))
    /\ stdout' = Append(stdout, out')
    /\ pc' = "done"
    /\ UNCHANGED <<key, raised, base_url, listing, latest_url, xml_text,
                   services, display_name, input, events, all_events>>

Next ==
    \/ MainStart
    \/ MainListingFails
    \/ MainPick
    \/ MainFetchFails
    \/ MainFetch
    \/ MainParse
    \/ MainMerge
    \/ MainSort
    \/ MainReconcile
    \/ MainEmit
    \/ MainWrite

Spec == Init /\ [][Next]_vars

(***************************************************************************)
(* Properties of main (Spec).                                              *)
(***************************************************************************)
\* The lines of kind `kind` in a document.
LinesOfKind(doc, kind) == {n \in 1..Len(doc) : doc[n].kind = kind}

\* C3: nothing is written to standard output unless the run ends normally:
\* while main runs and after an exception has ended it stdout is empty,
\* whatever `out` holds by then; the document is written once, after the
\* blocks of every configured channel have been emitted, and it is `out`
\* from the header to the footer.
C3_NoPartialOutput ==
    /\ pc # "done" => stdout = <<>>
    /\ pc = "aborted" <=> raised # NoError
    /\ pc = "done" =>
           /\ Len(stdout) = 1
           /\ stdout[1] = out
           /\ SubSeq(out, 1, Len(Header)) = Header
           /\ out[Len(out)] = Plain("/tv")
           /\ \A k \in 1..Len(CHAN_MAP) : \E n \in 1..Len(log) : log[n] = <<k, "emit">>
           /\ Cardinality(LinesOfKind(out, "channel")) = Len(CHAN_MAP)

\* The parse fails for the second channel after the first channel's
\* programmes have been put into `out`; nothing has been written.
C3_Witness ==
    /\ pc = "aborted"
    /\ key = 2
    /\ raised = "ValueError"
    /\ LinesOfKind(out, "programme") # {}
    /\ stdout = <<>>

StepsOfChannel(k) ==
    << <<k, "listing">>, <<k, "schedule">>, <<k, "parse">>, <<k, "merge">>,
       <<k, "sort">>, <<k, "reconcile">>, <<k, "emit">> >>

RECURSIVE StepsFrom(_)
StepsFrom(k) ==
    IF k > Len(CHAN_MAP) THEN << <<0, "write">> >>
    ELSE StepsOfChannel(k) \o StepsFrom(k + 1)

\* Index in CHAN_MAP of the channel a line refers to.
ChannelOf(line) == CHOOSE k \in 1..Len(CHAN_MAP) : line.chan = Escape(CHAN_MAP[k].id)

\* C4: the steps main has taken are an initial part of: for each channel
\* in configuration order, listing fetch, schedule fetch, parse, merge,
\* sort, reconcile, emit, each once, and then the write; and in the
\* document written the lines of channel k come before those of channel
\* k + 1, one channel declaration per channel.
C4_SequentialInOrder ==
    /\ Len(log) <= Len(StepsFrom(1))
    /\ log = SubSeq(StepsFrom(1), 1, Len(log))
    /\ pc = "done" =>
           LET doc == stdout[1]
               refs == {n \in 1..Len(doc) : doc[n].chan # <<>>}
           IN  /\ \A i, j \in refs : i < j => ChannelOf(doc[i]) <= ChannelOf(doc[j])
               /\ \A k \in 1..Len(CHAN_MAP) :
                      Cardinality({n \in LinesOfKind(doc, "channel") :
                                      ChannelOf(doc[n]) = k}) = 1

\* A run that ends normally with programmes of both channels written.
C4_Witness ==
    /\ pc = "done"
    /\ \A k \in 1..Len(CHAN_MAP) :
           \E n \in LinesOfKind(stdout[1], "programme") : ChannelOf(stdout[1][n]) = k

=============================================================================
